---- MODULE Spec2Model ----
(***************************************************************************)
(* Model of the SRT translation pipeline of speech-to-srt:                 *)
(*   src/translate-srt-v2.py  (GroqTranslator,   translator = "groq")      *)
(*   src/translate.py         (AvalaiTranslator, translator = "avalai")    *)
(*                                                                         *)
(* Strings are sequences of tokens.  A token is one character class of the *)
(* texts the code inspects: "\n" and " " are whitespace, "[k]" is a        *)
(* positional marker \[(\d+)\], "Label:" is the translation label that     *)
(* translate_text strips, every other token is ordinary text.              *)
(***************************************************************************)
EXTENDS Integers, Sequences, FiniteSets, TLC

\* ---------------------------------------------------------------- bounds
MaxCues == 3        \* largest number of parsed cues
MaxBatchSize == 3   \* largest batch_size given on the command line
MaxLines == 2       \* largest number of lines in a batch response
MaxBatches == 2     \* largest number of batches of a run
MaxContextCues == 5 \* largest number of cues before and in a batch, for the context
MaxBlocks == 5      \* largest number of blocks of a document given to parse_srt

\* ------------------------------------------------------ program constants
RetryCount == 3     \* retry_count default of translate_text

\* Optional[str] = None
None == <<"<None>">>

Min(a, b) == IF a < b THEN a ELSE b
Max(a, b) == IF a > b THEN a ELSE b

\* bool(s) of an Optional[str]
Truthy(s) == s # None /\ s # <<>>

\* ------------------------------------------------------------ str helpers
IsSpace(t) == t \in {"\n", " "}

MarkerToken == <<"[1]", "[2]", "[3]", "[4]", "[5]", "[6]">>

IsMarker(t) == t = "[0]" \/ \E k \in DOMAIN MarkerToken : MarkerToken[k] = t

\* int(num_str)
MarkerNum(t) == IF t = "[0]" THEN 0
                ELSE CHOOSE k \in DOMAIN MarkerToken : MarkerToken[k] = t

RECURSIVE LStrip(_)
LStrip(s) == IF s # <<>> /\ IsSpace(Head(s)) THEN LStrip(Tail(s)) ELSE s

RECURSIVE RStrip(_)
RStrip(s) == IF s # <<>> /\ IsSpace(s[Len(s)])
             THEN RStrip(SubSeq(s, 1, Len(s) - 1)) ELSE s

\* str.strip()
Strip(s) == RStrip(LStrip(s))

\* s[:k]
Take(s, k) == SubSeq(s, 1, Min(k, Len(s)))

\* number of consecutive "\n" at the front of s
RECURSIVE NewlineRun(_)
NewlineRun(s) == IF s # <<>> /\ Head(s) = "\n" THEN 1 + NewlineRun(Tail(s)) ELSE 0

\* re.sub(r'\n{3,}', '\n\n', s)
RECURSIVE CollapseNewlines(_)
CollapseNewlines(s) ==
    IF s = <<>> THEN <<>>
    ELSE LET r == NewlineRun(s) IN
         IF r >= 3 THEN <<"\n", "\n">> \o CollapseNewlines(SubSeq(s, r + 1, Len(s)))
         ELSE <<Head(s)>> \o CollapseNewlines(Tail(s))

\* first position >= j of s that holds no whitespace (Len(s)+1 if none): \s*
RECURSIVE SkipSpace(_, _)
SkipSpace(s, j) == IF j <= Len(s) /\ IsSpace(s[j]) THEN SkipSpace(s, j + 1) ELSE j

\* the lookahead (?=\n\s*\[\d+\]|\Z) at position j of s
Lookahead(s, j) ==
    \/ j = Len(s) + 1
    \/ /\ j <= Len(s)
       /\ s[j] = "\n"
       /\ LET k == SkipSpace(s, j + 1) IN k <= Len(s) /\ IsMarker(s[k])

\* end of the lazy group (.*?) that starts at j: first position where the
\* lookahead succeeds
RECURSIVE SegmentEnd(_, _)
SegmentEnd(s, j) == IF Lookahead(s, j) THEN j ELSE SegmentEnd(s, j + 1)

\* re.findall(r'\[(\d+)\]\s*(.*?)(?=\n\s*\[\d+\]|\Z)', s, flags=re.DOTALL)
\* scanning from position j: the list of <<int(num_str), translation>>
RECURSIVE FindAllFrom(_, _)
FindAllFrom(s, j) ==
    IF j > Len(s) THEN <<>>
    ELSE IF ~IsMarker(s[j]) THEN FindAllFrom(s, j + 1)
    ELSE LET b == SkipSpace(s, j + 1)
             e == SegmentEnd(s, b)
         IN  <<[num |-> MarkerNum(s[j]), translation |-> SubSeq(s, b, e - 1)]>>
                \o FindAllFrom(s, e)

FindAll(s) == FindAllFrom(s, 1)

\* clean_translation of translate_batch
CleanTranslation(translation) == CollapseNewlines(Strip(translation))

\* re.sub(r'^(label)\s*', '', clean_result) of GroqTranslator.translate_text
StripLabel(s) == IF s # <<>> /\ Head(s) = "Label:" THEN LStrip(Tail(s)) ELSE s


\* ------------------------------------------------------------ cue model
\* @dataclass SubtitleBlock
SubtitleBlock(index, start_time, end_time, text) ==
    [index |-> index, start_time |-> start_time, end_time |-> end_time,
     text |-> text, translated_text |-> None]

\* texts and timing lines of the blocks of the input document, by position
CueText == << <<"s1">>, <<"s2">>, <<"s3">>, <<"s4">>, <<"s5">> >>
CueStart == <<"00:00:01,000", "00:00:03,000", "00:00:05,000", "00:00:07,000", "00:00:09,000">>
CueEnd == <<"00:00:02,500", "00:00:04,000", "00:00:06,000", "00:00:08,000", "00:00:10,000">>

\* index lines of the blocks of the input document, by position: out of
\* order and with repeated indexes
IndexOrders == { <<2, 2, 1, 3, 3>> }

\* len(range(0, n, b)) for b >= 1
NumBatches(n, b) == (n + b - 1) \div b

\* the cue lists parse_srt can return for a readable document, under a batch
\* size b
ParsedCues(b) ==
    { [p \in 1..n |-> SubtitleBlock(order[p], CueStart[p], CueEnd[p], CueText[p])] :
        n \in { m \in 0..MaxCues : b >= 1 => NumBatches(m, b) <= MaxBatches },
        order \in IndexOrders }

\* ------------------------------------------------------------ backend
\* what the backend does with one request
ErrorReply == [status |-> "error", content |-> <<>>]
RateLimitReply == [status |-> "rate_limit", content |-> <<>>]
OkReply(content) == [status |-> "ok", content |-> content]

\* GroqTranslator._call_api / AvalaiTranslator._post_chat
CallApi(tr, reply) ==
    IF reply.status # "ok" THEN None
    ELSE IF tr = "groq"
         THEN (IF reply.content # <<>> THEN Strip(reply.content) ELSE None)
         ELSE Strip(reply.content)

\* bodies that may follow a marker on a line of a batch response
Bodies == { <<" ", "a">>, <<" ", "a", "\n", "\n", "\n", "b">> }

\* responses outside the lines: blank, text without marker, text before the
\* first marker, a marker without body alone, last and before another marker,
\* the marker [0] alone and before another marker
OtherContents ==
    { <<" ">>, <<"a">>, <<"a", "\n", "[1]", " ", "a">>, <<"[1]">>,
      <<"[1]", " ", "a", "\n", "[1]">>, <<"[1]", "\n", "[2]", " ", "a">>,
      <<"[0]", " ", "a">>, <<"[0]", " ", "a", "\n", "[1]", " ", "a">> }

MarkerOf(k) == IF k = 0 THEN "[0]" ELSE MarkerToken[k]

\* lines of a response to a batch of len cues: a marker 1..len+1 and a body
Lines(len) == { <<MarkerOf(k)>> \o b : k \in 1..(len + 1), b \in Bodies }

\* "\n".join(lines)
RECURSIVE JoinLines(_)
JoinLines(ls) == IF ls = <<>> THEN <<>>
                 ELSE IF Len(ls) = 1 THEN ls[1]
                 ELSE ls[1] \o <<"\n">> \o JoinLines(Tail(ls))

\* contents of a response: empty, up to MaxLines lines, or one of the others
BatchContents(len) ==
    OtherContents \cup
    { JoinLines(ls) : ls \in UNION { [1..m -> Lines(len)] : m \in 0..MaxLines } }

BatchReplies(len) ==
    { ErrorReply, RateLimitReply } \cup { OkReply(c) : c \in BatchContents(len) }

ItemContents == { <<>>, <<" ">>, <<"t">>, <<"Label:">>, <<"Label:", " ", "t">> }

ItemReplies == { ErrorReply, RateLimitReply } \cup { OkReply(c) : c \in ItemContents }

Translators == {"groq", "avalai"}

\* a batch request as translate_batch sees it: whether _call_api returned a
\* result that passes "if not result", and re.findall on that result
BatchResult(tr, reply) ==
    LET result == CallApi(tr, reply)
    IN  [usable |-> Truthy(result),
         pairs |-> IF Truthy(result) THEN FindAll(result) ELSE <<>>]

\* the outcomes of a batch request, by translator and length of the batch
BatchResults ==
    [tr \in Translators |->
        [len \in 1..MaxBatchSize |-> { BatchResult(tr, reply) : reply \in BatchReplies(len) }]]

\* ------------------------------------------------------------ context
\* " <- ".join(parts)
RECURSIVE JoinContext(_)
JoinContext(parts) == IF parts = <<>> THEN <<>>
                      ELSE IF Len(parts) = 1 THEN parts[1]
                      ELSE parts[1] \o <<" <- ">> \o JoinContext(Tail(parts))

\* context_parts of translate_batch over the positions lo..hi (1-based)
RECURSIVE ContextParts(_, _, _, _)
ContextParts(tr, subs, lo, hi) ==
    IF lo > hi THEN <<>>
    ELSE LET t == subs[lo].translated_text
             part == IF tr = "groq" THEN Take(t, 50) ELSE <<"[">> \o t \o <<"]">>
         IN (IF Truthy(t) THEN <<part>> ELSE <<>>) \o ContextParts(tr, subs, lo + 1, hi)

\* mutant: the window is every cue before the batch
BuildContext_WholePrefix(tr, subs, at) ==
    IF at > 0 THEN JoinContext(ContextParts(tr, subs, 1, at))
    ELSE <<>>

\* the context of the batch that starts at offset at (0-based)
BuildContext(tr, subs, at) ==
    IF at > 0 THEN JoinContext(ContextParts(tr, subs, Max(0, at - 3) + 1, at))
    ELSE <<>>

\* the context as create_batch_prompt puts it into the prompt
BatchPromptContext(tr, ctx) == Take(ctx, IF tr = "groq" THEN 200 ELSE 300)

\* ------------------------------------------------------------ writer
\* mutant: cues of equal index come out in reverse order
SortedPlace_Unstable(subs, p) ==
    1 + Cardinality({ q \in DOMAIN subs :
                        \/ subs[q].index < subs[p].index
                        \/ subs[q].index = subs[p].index /\ q > p })

\* place in sorted(subtitles, key=lambda s: s.index) of the cue at position
\* p: after the cues of smaller index and the earlier cues of equal index
SortedPlace(subs, p) ==
    1 + Cardinality({ q \in DOMAIN subs :
                        \/ subs[q].index < subs[p].index
                        \/ subs[q].index = subs[p].index /\ q < p })

\* sorted(subtitles, key=lambda s: s.index), a stable sort
SortedByIndex(subs) ==
    [k \in DOMAIN subs |-> subs[CHOOSE p \in DOMAIN subs : SortedPlace(subs, p) = k]]

\* mutant: an empty translated_text is written as body
SrtRecord_EmptyBody(c) ==
    [index |-> c.index, start_time |-> c.start_time, end_time |-> c.end_time,
     body |-> Strip(IF c.translated_text # None THEN c.translated_text ELSE c.text)]

\* the three lines write_srt writes for one cue
SrtRecord(c) ==
    [index |-> c.index, start_time |-> c.start_time, end_time |-> c.end_time,
     body |-> Strip(IF Truthy(c.translated_text) THEN c.translated_text ELSE c.text)]

\* the records write_srt writes when the file accepts them all
SrtRecords(subs) == LET s == SortedByIndex(subs) IN [k \in DOMAIN s |-> SrtRecord(s[k])]

\* ------------------------------------------------------------ state
VARIABLES
    translator,            \* which translator runs: "groq" or "avalai"
    input_file,            \* "missing", "unreadable" or "readable"
    batch_size,            \* args.batch_size
    pc,                    \* position of the run
    subtitles,             \* the cue list of translate_file
    i,                     \* loop variable of translate_batch (0-based offset)
    context,               \* context of the current batch
    assigned,              \* the assignments of the pairs loop of the last batch
    translations_applied,  \* flag of the current batch
    translated_count,      \* counter of translate_batch
    cur,                   \* position of the cue translate_text works on
    attempt,               \* loop variable of translate_text
    calls,                 \* log of the backend requests issued so far
    waits,                 \* per cue position: the backoff sleeps of its translate_text
    pauses,                \* log of the sleeps that end a batch (milliseconds)
    progress,              \* log of the progress signals (translated_count)
    output,                \* records written to the output file
    output_file,           \* "absent", "partial" (I/O error) or "complete"
    returned,              \* what translate_file did: "None", "output_path", "raised",
                           \* "interrupted"; "" if it did not run to an end
    success_count,         \* the final summary count, -1 if not reported
    exit_status,           \* return value of main, -1 while running
    document,              \* the content of the file parse_srt reads, when the run has one
    warned                 \* parse_srt logged the low-count warning

run_vars == <<translator, input_file, batch_size>>
batch_vars == <<i, context, assigned, translations_applied, translated_count,
               cur, attempt>>
log_vars == <<calls, waits, pauses, progress>>
end_vars == <<output, output_file, returned, success_count, exit_status>>
file_vars == <<document, warned>>
vars == <<run_vars, pc, subtitles, batch_vars, log_vars, end_vars, file_vars>>

total == Len(subtitles)

\* positions (1-based) of batch = subtitles[at:at + batch_size]
BatchFirst(at) == at + 1

\* mutant: the slice runs to the end of the list
BatchLast_WholeRest(at) == total

\* last position of the slice
BatchLast(at) == Min(at + batch_size, total)

BatchLen(at) == BatchLast(at) - at

\* batch_texts
BatchTexts(at) == [k \in 1..BatchLen(at) |-> subtitles[at + k].text]

\* argparse: input path, -b/--batch-size (type=int, default 5)
Init ==
    /\ translator \in Translators
    /\ input_file \in {"missing", "unreadable", "readable"}
    /\ batch_size \in {-1, 0} \cup (1..MaxBatchSize)
    /\ pc = "main"
    /\ subtitles = <<>>
    /\ i = 0
    /\ context = <<>>
    /\ assigned = <<>>
    /\ translations_applied = FALSE
    /\ translated_count = 0
    /\ cur = 0
    /\ attempt = 0
    /\ calls = <<>>
    /\ waits = <<>>
    /\ pauses = <<>>
    /\ progress = <<>>
    /\ output = <<>>
    /\ output_file = "absent"
    /\ returned = ""
    /\ success_count = -1
    /\ exit_status = -1
    /\ document = <<>>
    /\ warned = FALSE

\* main returns status
Exit(status, value) ==
    /\ pc' = "done"
    /\ exit_status' = status
    /\ returned' = value

\* main up to the call of translate_file: the Groq tool checks the input path
Main ==
    /\ pc = "main"
    /\ IF translator = "groq" /\ input_file = "missing"
       THEN /\ Exit(1, "")
            /\ UNCHANGED <<run_vars, file_vars, subtitles, batch_vars, log_vars,
                           output, output_file, success_count>>
       ELSE /\ pc' = "parse"
            /\ UNCHANGED <<run_vars, file_vars, subtitles, batch_vars, log_vars, end_vars>>

\* mutant: the warning is logged for at most 5 cues
LowCount_AtMost(cues) == Len(cues) <= 5

\* "if len(subtitles) < 5" of parse_srt: the low-count warning is logged
LowCount(cues) == Len(cues) < 5

\* translate_file up to the call of translate_batch: parse_srt and the
\* empty-list check
ParseSrt ==
    /\ pc = "parse"
    /\ IF input_file # "readable"
       THEN \* groq: parse_srt logs and returns []; avalai: open() raises
            /\ IF translator = "groq" THEN Exit(1, "None") ELSE Exit(1, "raised")
            /\ UNCHANGED <<run_vars, file_vars, subtitles, batch_vars, log_vars,
                           output, output_file, success_count>>
       ELSE \E cues \in ParsedCues(batch_size) :
            /\ subtitles' = cues
            /\ warned' = LowCount(cues)
            /\ waits' = [p \in DOMAIN cues |-> <<>>]
            /\ IF cues = <<>>
               THEN \* translate_file returns None; avalai's main ignores it
                    /\ Exit(IF translator = "groq" THEN 1 ELSE 0, "None")
                    /\ UNCHANGED <<run_vars, document, batch_vars, calls, pauses, progress,
                                   output, output_file, success_count>>
               ELSE /\ pc' = "loop"
                    /\ UNCHANGED <<run_vars, document, batch_vars, calls, pauses, progress,
                                   end_vars>>

\* range(0, total, 0) raises ValueError, caught by main's except Exception
RangeError ==
    /\ pc = "loop"
    /\ batch_size = 0
    /\ Exit(1, "raised")
    /\ UNCHANGED <<run_vars, file_vars, subtitles, batch_vars, log_vars,
                   output, output_file, success_count>>

\* the for loop of translate_batch is exhausted: return subtitles
BatchLoopExit ==
    /\ pc = "loop"
    /\ batch_size # 0
    /\ (batch_size < 0 \/ i >= total)
    /\ pc' = "write"
    /\ assigned' = <<>>
    /\ UNCHANGED <<run_vars, file_vars, subtitles, i, context, translations_applied, translated_count,
                   cur, attempt, log_vars, end_vars>>

\* mutant: the same pause on every path
PauseAfter_Uniform(failed) == IF translator = "groq" THEN 500 ELSE 800

\* the time.sleep that ends an iteration, in milliseconds: 1 s on the
\* failed-request path, 0.5 s (Groq) or 0.8 s (Avalai) at the end of the body
PauseAfter(failed) == IF failed THEN 1000 ELSE IF translator = "groq" THEN 500 ELSE 800

\* the end of one iteration of the for loop: progress signal (not on the
\* failed-request path, which leaves with continue), sleep, next offset
EndBatch(failed) ==
    /\ progress' = IF failed THEN progress ELSE Append(progress, translated_count')
    /\ pauses' = Append(pauses, PauseAfter(failed))
    /\ i' = i + batch_size
    /\ pc' = "loop"
    /\ cur' = 0
    /\ attempt' = 0

\* mutant: the fallback loop runs only after a failed request
NeedsFallback_FailedOnly(subs, failed, p) == failed

\* the fallback loop translates the cue at p: every cue after a failed
\* request, the cues without translation otherwise
NeedsFallback(subs, failed, p) == failed \/ ~Truthy(subs[p].translated_text)

\* mutant: the fallback loop stops before the last cue of the batch
RECURSIVE NextFallback_SkipsLast(_, _, _)
NextFallback_SkipsLast(subs, failed, from) ==
    IF from >= BatchLast(i) THEN 0
    ELSE IF NeedsFallback(subs, failed, from) THEN from
    ELSE NextFallback_SkipsLast(subs, failed, from + 1)

\* first position in from..BatchLast(i) that the fallback loop translates,
\* 0 if none
RECURSIVE NextFallback(_, _, _)
NextFallback(subs, failed, from) ==
    IF from > BatchLast(i) THEN 0
    ELSE IF NeedsFallback(subs, failed, from) THEN from
    ELSE NextFallback(subs, failed, from + 1)

\* positions of the batch at offset at that a pair of ps names:
\* 0 <= int(num_str) - 1 < len(batch)
ValidPositions(at, ps) ==
    { at + ps[j].num : j \in { m \in DOMAIN ps : 1 <= ps[m].num /\ ps[m].num <= BatchLen(at) } }

\* mutant: the marker is taken as a position in subtitles, not in batch
BatchCue_Absolute(at, idx_local) == 1 + idx_local

\* position in subtitles of batch[idx_local] for the batch at offset at
BatchCue(at, idx_local) == at + 1 + idx_local

\* mutant: the assignment goes to sub.text
SetTranslated_Text(subs, p, value) == [subs EXCEPT ![p].text = value]

\* subs after "sub.translated_text = value" for the cue at position p
SetTranslated(subs, p, value) == [subs EXCEPT ![p].translated_text = value]

\* "for num_str, translation in pairs" over the pairs ps of the batch at
\* offset at: acc carries the cues, translated_count, translations_applied
\* and the assignments made
RECURSIVE ApplyPairs(_, _, _)
ApplyPairs(at, ps, acc) ==
    IF ps = <<>> THEN acc
    ELSE LET pair == Head(ps)
             idx_local == pair.num - 1
         IN  IF 0 <= idx_local /\ idx_local < BatchLen(at)
             THEN LET p == BatchCue(at, idx_local)
                      cleaned == CleanTranslation(pair.translation)
                  IN  ApplyPairs(at, Tail(ps),
                          [subs |-> SetTranslated(acc.subs, p, cleaned),
                           count |-> acc.count + 1,
                           applied |-> TRUE,
                           log |-> Append(acc.log, [num |-> pair.num, pos |-> p,
                                                    translation |-> pair.translation,
                                                    value |-> cleaned])])
             ELSE ApplyPairs(at, Tail(ps), acc)

\* one iteration of the for loop up to the fallback loop: slice, context,
\* prompt, the backend call, re.findall on a usable result, the pairs loop,
\* and the choice between the fallback loop and the end of the iteration
BatchRequest ==
    /\ pc = "loop"
    /\ batch_size > 0
    /\ i < total
    /\ \E res \in BatchResults[translator][BatchLen(i)] :
        LET ctx == BuildContext(translator, subtitles, i)
            r == ApplyPairs(i, res.pairs,
                            [subs |-> subtitles, count |-> translated_count,
                             applied |-> FALSE, log |-> <<>>])
            failed == ~res.usable
            first == IF failed \/ ~r.applied
                     THEN NextFallback(r.subs, failed, BatchFirst(i))
                     ELSE 0
        IN  /\ context' = ctx
            /\ calls' = Append(calls, [kind |-> "batch", at |-> i, texts |-> BatchTexts(i),
                                       context |-> BatchPromptContext(translator, ctx),
                                       usable |-> res.usable,
                                       marked |-> ValidPositions(i, res.pairs)])
            /\ subtitles' = r.subs
            /\ translated_count' = r.count
            /\ translations_applied' = r.applied
            /\ assigned' = r.log
            /\ IF first # 0
               THEN /\ pc' = IF failed THEN "fallback_failed" ELSE "fallback_unparsed"
                    /\ cur' = first
                    /\ attempt' = 0
                    /\ UNCHANGED <<i, pauses, progress>>
               ELSE EndBatch(failed)
    /\ UNCHANGED <<run_vars, file_vars, waits, end_vars>>

\* sub.translated_text = translate_text(...) returned value; translated_count += 1;
\* then the next cue of the fallback loop or the end of the iteration
AssignFallback(value) ==
    LET subs == SetTranslated(subtitles, cur, value)
        failed == (pc = "fallback_failed")
        next == NextFallback(subs, failed, cur + 1)
    IN  /\ subtitles' = subs
        /\ translated_count' = translated_count + 1
        /\ IF next # 0
           THEN /\ cur' = next
                /\ attempt' = 0
                /\ UNCHANGED <<pc, i, pauses, progress>>
           ELSE EndBatch(failed)

\* mutant: a constant wait of one second instead of 2 ** attempt
BackoffWaits_Constant(tr, a) ==
    IF tr = "groq" THEN (IF a < RetryCount - 1 THEN <<1>> ELSE <<>>)
    ELSE <<1>>

\* the sleep of translate_text after a failed attempt
BackoffWaits(tr, a) ==
    IF tr = "groq" THEN (IF a < RetryCount - 1 THEN <<2 ^ a>> ELSE <<>>)
    ELSE <<2 ^ a>>

\* mutant: range(retry_count + 1)
MoreAttempts_OneMore(a) == a < RetryCount

\* "for attempt in range(retry_count)": another attempt follows attempt a
MoreAttempts(a) == a + 1 < RetryCount

\* what translate_text returns for a usable result
AcceptedText(tr, result) == IF tr = "groq" THEN StripLabel(Strip(result)) ELSE result

\* one iteration of "for attempt in range(retry_count)" of translate_text for
\* the cue at cur, and, when translate_text returns, the assignment in
\* translate_batch
TranslateAttempt ==
    /\ pc \in {"fallback_failed", "fallback_unparsed"}
    /\ \E reply \in ItemReplies :
        LET result == CallApi(translator, reply) IN
        /\ calls' = Append(calls, [kind |-> "item", at |-> cur,
                                   texts |-> <<subtitles[cur].text>>,
                                   context |-> context, usable |-> Truthy(result),
                                   marked |-> {}])
        /\ IF Truthy(result)
           THEN /\ AssignFallback(AcceptedText(translator, result))
                /\ UNCHANGED waits
           ELSE /\ waits' = [waits EXCEPT ![cur] = @ \o BackoffWaits(translator, attempt)]
                /\ IF MoreAttempts(attempt)
                   THEN /\ attempt' = attempt + 1
                        /\ UNCHANGED <<pc, subtitles, i, translated_count, cur, pauses, progress>>
                   ELSE AssignFallback(subtitles[cur].text)
    /\ UNCHANGED <<run_vars, file_vars, context, assigned, translations_applied, end_vars>>

\* translate_file from write_srt to its return, and main's return: write_srt
\* writes the sorted records until an I/O error ("absent": open failed,
\* "partial": the write of the last record failed) or until all are written
WriteSrt ==
    /\ pc = "write"
    /\ \E written \in {0, total - 1, total}, file \in {"absent", "partial", "complete"} :
        /\ (file = "absent" => written = 0)
        /\ (file = "partial" => written = total - 1)
        /\ (file = "complete" => written = total)
        /\ output' = SubSeq(SrtRecords(subtitles), 1, written)
        /\ output_file' = file
        /\ IF translator = "avalai" /\ file # "complete"
           THEN \* the exception leaves write_srt and translate_file
                /\ Exit(1, "raised")
                /\ UNCHANGED success_count
           ELSE /\ success_count' =
                     Cardinality({p \in DOMAIN subtitles : Truthy(subtitles[p].translated_text)})
                /\ Exit(0, "output_path")
    /\ UNCHANGED <<run_vars, file_vars, subtitles, batch_vars, log_vars>>

Next ==
    \/ Main
    \/ ParseSrt
    \/ RangeError
    \/ BatchLoopExit
    \/ BatchRequest
    \/ TranslateAttempt
    \/ WriteSrt

Spec == Init /\ [][Next]_vars

\* ------------------------------------------------- reading the call log
BatchCalls == { k \in DOMAIN calls : calls[k].kind = "batch" }

ItemCallsAt(p) == { k \in DOMAIN calls : calls[k].kind = "item" /\ calls[k].at = p }

FailedCallsAt(p) == { k \in ItemCallsAt(p) : ~calls[k].usable }

\* positions of the cues of the batch requested by call k
PositionsOf(k) == (calls[k].at + 1)..(calls[k].at + Len(calls[k].texts))

\* positions of the batch of call k for which its response has a marker
Marked(k) == calls[k].marked

\* offset of the batch whose pairs loop made the assignments of assigned
AssignedAt == calls[CHOOSE k \in BatchCalls : \A m \in BatchCalls : m <= k].at

\* the last assignment of the pairs loop to the cue at position p
LastAssigned(p) ==
    LET js == { j \in DOMAIN assigned : assigned[j].pos = p }
        last == CHOOSE j \in js : \A m \in js : m <= j
    IN  assigned[last]

\* the for loop has left the batch of call k
Resolved(k) == pc \in {"write", "done"} \/ i > calls[k].at

\* translate_text is not running for the cue at p
NotInTranslateText(p) == ~(pc \in {"fallback_failed", "fallback_unparsed"} /\ cur = p)

\* translate_text ran for the cue at p and every attempt failed
Exhausted(p) ==
    /\ ItemCallsAt(p) # {}
    /\ FailedCallsAt(p) = ItemCallsAt(p)
    /\ NotInTranslateText(p)

TranslateBatchReturned == pc \in {"write", "done"}

\* ------------------------------------------------------------ claims

\* C1: a cue whose translate_text failed on all retry_count attempts still
\* has translated_text None after translate_batch returns, and write_srt
\* emits its source text as body.
C1_FallbackExhaustion ==
    TranslateBatchReturned =>
        \A p \in DOMAIN subtitles :
            Exhausted(p) =>
                /\ subtitles[p].translated_text = None
                /\ SrtRecord(subtitles[p]).body = subtitles[p].text

\* C2: in a batch whose response has a valid marker for some but not all
\* positions, every cue without marker is submitted to translate_text before
\* the next batch, and every cue with marker takes the segment of the response.
C2_PartialBatch ==
    \A k \in BatchCalls :
        (Resolved(k) /\ Marked(k) # {} /\ Marked(k) # PositionsOf(k)) =>
            /\ \A p \in PositionsOf(k) \ Marked(k) : \E m \in ItemCallsAt(p) : m > k
            /\ \A p \in Marked(k) :
                 subtitles[p].translated_text # None /\ ItemCallsAt(p) = {}

\* C3: after a batch request without usable response, every cue of that
\* batch is submitted to translate_text before any later batch request, and
\* before the loop leaves the batch.
C3_BatchFailure ==
    \A k \in BatchCalls :
        ~calls[k].usable =>
            /\ \A j \in BatchCalls :
                 j > k => \A p \in PositionsOf(k) :
                            \E m \in ItemCallsAt(p) : k < m /\ m < j
            /\ Resolved(k) => \A p \in PositionsOf(k) : \E m \in ItemCallsAt(p) : m > k

C3_Witness ==
    \E k, j \in BatchCalls :
        k < j /\ ~calls[k].usable /\ Len(calls[k].texts) >= 2

\* C4: a usable batch response without any marker of a position of the
\* batch sends every cue of the batch to translate_text, before any later
\* batch request.
C4_TotalParseFailure ==
    \A k \in BatchCalls :
        (calls[k].usable /\ Marked(k) = {}) =>
            /\ \A j \in BatchCalls :
                 j > k => \A p \in PositionsOf(k) :
                            \E m \in ItemCallsAt(p) : k < m /\ m < j
            /\ Resolved(k) => \A p \in PositionsOf(k) : \E m \in ItemCallsAt(p) : m > k

C4_Witness ==
    \E k \in BatchCalls :
        /\ calls[k].usable
        /\ Marked(k) = {}
        /\ Len(calls[k].texts) >= 2
        /\ Resolved(k)

\* C5: every assignment of the pairs loop for a marker k goes to the k-th
\* cue of the batch, whatever the index of that cue, and after the loop that
\* cue holds the cleaned segment of the last marker k; so a response with one
\* segment per position gives every cue of the batch its own segment.
C5_PositionalReconciliation ==
    \A j \in DOMAIN assigned :
        LET e == assigned[j] IN
        /\ e.pos = AssignedAt + e.num
        /\ subtitles[e.pos].translated_text = CleanTranslation(LastAssigned(e.pos).translation)

C5_Witness ==
    /\ pc = "loop"
    /\ [j \in DOMAIN assigned |-> assigned[j].num] = <<1, 2>>
    /\ assigned[1].translation # assigned[2].translation
    /\ subtitles[AssignedAt + 1].index # 1
    /\ subtitles[AssignedAt + 1].translated_text = CleanTranslation(assigned[1].translation)
    /\ subtitles[AssignedAt + 2].translated_text = CleanTranslation(assigned[2].translation)

\* C6: translate_text issues at most retry_count backend calls for a cue, a
\* call is followed by another only if it returned no usable response, and
\* when every call failed it stops after exactly retry_count calls.
C6_RetryCeiling ==
    \A p \in DOMAIN subtitles :
        /\ Cardinality(ItemCallsAt(p)) <= RetryCount
        /\ \A k1, k2 \in ItemCallsAt(p) : k1 < k2 => ~calls[k1].usable
        /\ Exhausted(p) => Cardinality(ItemCallsAt(p)) = RetryCount

C6_Witness ==
    \E p, q \in DOMAIN subtitles :
        /\ Exhausted(p)
        /\ Cardinality(ItemCallsAt(p)) = 3
        /\ NotInTranslateText(q)
        /\ Cardinality(ItemCallsAt(q)) = 2
        /\ \E k \in ItemCallsAt(q) : calls[k].usable

\* the sleeps 2^0, 2^1, ... that follow the first m failed attempts
Backoff(m) == [a \in 1..m |-> 2 ^ (a - 1)]

\* C7 as claimed: in GroqTranslator.translate_text every failed attempt a is
\* followed by a sleep of 2^a seconds (1, 2, 4 when three attempts fail).
C7_BackoffAfterEveryFailure ==
    translator = "groq" =>
        \A p \in DOMAIN subtitles :
            waits[p] = Backoff(Cardinality(FailedCallsAt(p)))

\* C7 as amended: in GroqTranslator.translate_text a failed attempt a is
\* followed by a sleep of 2^a seconds only if another attempt follows
\* (a < retry_count - 1): three failed attempts sleep 1 and 2 seconds.
C7_BackoffBetweenAttempts ==
    translator = "groq" =>
        \A p \in DOMAIN subtitles :
            waits[p] = Backoff(Min(Cardinality(FailedCallsAt(p)), RetryCount - 1))

C7_Witness ==
    /\ translator = "groq"
    /\ \E p \in DOMAIN subtitles :
        /\ Exhausted(p)
        /\ Cardinality(FailedCallsAt(p)) = 3
        /\ waits[p] = <<1, 2>>

\* C8: a translated_text that is set is never cleared (None or empty): not
\* by a later assignment of the same pairs loop, not by a later step; and it
\* changes only in an iteration of the batch loop.
NoClearing ==
    \A j, k \in DOMAIN assigned :
        (j < k /\ assigned[j].pos = assigned[k].pos /\ Truthy(assigned[j].value))
            => Truthy(assigned[k].value)

StaysSet ==
    \A p \in DOMAIN subtitles :
        Truthy(subtitles[p].translated_text) =>
            /\ p \in DOMAIN subtitles'
            /\ Truthy(subtitles'[p].translated_text)
            /\ (subtitles'[p].translated_text # subtitles[p].translated_text
                  => pc \in {"loop", "fallback_failed", "fallback_unparsed"})

C8_NeverCleared == []NoClearing /\ [][StaysSet]_vars

\* C9: while translate_batch runs, the cue list keeps its length and every
\* cue keeps its index, start_time, end_time and text.
KeepsCues ==
    pc \in {"loop", "fallback_failed", "fallback_unparsed"} =>
        /\ DOMAIN subtitles' = DOMAIN subtitles
        /\ \A p \in DOMAIN subtitles :
              /\ subtitles'[p].index = subtitles[p].index
              /\ subtitles'[p].start_time = subtitles[p].start_time
              /\ subtitles'[p].end_time = subtitles[p].end_time
              /\ subtitles'[p].text = subtitles[p].text

C9_FrameEffect == [][KeepsCues]_vars

C9_Witness ==
    /\ pc = "write"
    /\ total >= 2
    /\ \E p, q \in DOMAIN subtitles :
        /\ Truthy(subtitles[p].translated_text)
        /\ subtitles[p].translated_text # subtitles[p].text
        /\ subtitles[q].translated_text = None

\* ceil(n / batch_size) + n * retry_count
CallBound == NumBatches(total, batch_size) + total * RetryCount

\* C10: with batch_size >= 1 and at least one parsed cue, whatever the
\* backend replies, the run issues at most ceil(n/batch_size) + n*retry_count
\* backend calls, reaches write_srt and ends, and a write that meets no I/O
\* error leaves one record per parsed cue.
\* a run with batch_size >= 1 over at least one parsed cue
InTranslation == batch_size >= 1 /\ total >= 1

\* the steps of a run are counted down by a variant: the position of the run
\* (stage, offset of the batch, phase of the batch, cue, attempt) in
\* lexicographic order
Stage == CASE pc = "main" -> 0
           [] pc = "parse" -> 1
           [] pc \in {"loop", "fallback_failed", "fallback_unparsed"} -> 2
           [] pc = "write" -> 3
           [] pc = "done" -> 4

Phase == IF pc \in {"fallback_failed", "fallback_unparsed"} THEN 1 ELSE 0

Variant == (((Stage * 16 + i) * 16 + Phase) * 16 + cur) * 16 + attempt

Advances == InTranslation => Variant' > Variant

\* what a run in translation never does: exceed the call bound, stop before
\* main has returned, or return without having gone through write_srt
WithinBounds ==
    InTranslation =>
        /\ Len(calls) <= CallBound
        /\ Variant < 5 * 16 * 16 * 16 * 16
        /\ (pc # "done" => ENABLED Next)
        /\ (pc = "done" =>
              /\ exit_status \in {0, 1}
              /\ returned \in {"output_path", "raised"}
              /\ (returned = "raised" => translator = "avalai" /\ output_file # "complete")
              /\ (output_file = "complete" =>
                    /\ Len(output) = total
                    /\ output = SrtRecords(subtitles)))

C10_BackendNeverFatal == []WithinBounds /\ [][Advances]_vars

C10_Witness ==
    /\ pc = "done"
    /\ batch_size >= 1
    /\ total >= 2
    /\ output_file = "complete"
    /\ Len(output) = total
    /\ Len(calls) = CallBound
    /\ \E k \in DOMAIN calls : calls[k].kind = "item" /\ calls[k].at = total

\* the last batch request of the log, 0 if there is none
LastBatchCall ==
    IF BatchCalls = {} THEN 0
    ELSE CHOOSE k \in BatchCalls : \A m \in BatchCalls : m <= k

\* the last batch request before call m, 0 if there is none
BatchCallBefore(m) ==
    LET ks == { k \in BatchCalls : k < m }
    IN  IF ks = {} THEN 0 ELSE CHOOSE k \in ks : \A j \in ks : j <= k

\* the requests follow the batches: the k-th batch request is for offset
\* (k - 1) * batch_size, an item request is for a cue of the batch requested
\* last, and no cue after that batch has a translated_text
InBatchOrder ==
    /\ \A k \in BatchCalls :
          calls[k].at = (Cardinality({ j \in BatchCalls : j <= k }) - 1) * batch_size
    /\ \A m \in DOMAIN calls :
          calls[m].kind = "item" =>
              BatchCallBefore(m) # 0 /\ calls[m].at \in PositionsOf(BatchCallBefore(m))
    /\ \A p \in DOMAIN subtitles :
          (LastBatchCall = 0 \/ \A q \in PositionsOf(LastBatchCall) : q < p)
              => subtitles[p].translated_text = None
    /\ pc \in {"fallback_failed", "fallback_unparsed"} => cur \in PositionsOf(LastBatchCall)

\* a step that issues a batch request starts from the head of the loop, with
\* no translate_text running and every batch requested before left behind
BatchAfterResolved ==
    (Len(calls') = Len(calls) + 1 /\ calls'[Len(calls')].kind = "batch") =>
        /\ pc = "loop"
        /\ \A k \in BatchCalls : \A p \in PositionsOf(k) : p <= i
        /\ \A k \in BatchCalls :
              ~calls[k].usable => \A p \in PositionsOf(k) : ItemCallsAt(p) # {}

\* C11: batches are processed in document order, one request at a time: the
\* request for the next batch is issued only when the batch before is
\* resolved, and no cue of a later batch is modified before that.
C11_SequentialBatches == []InBatchOrder /\ [][BatchAfterResolved]_vars

C11_Witness ==
    /\ Cardinality(BatchCalls) = 2
    /\ \E k \in BatchCalls : ~calls[k].usable /\ k # LastBatchCall
                              /\ \A p \in PositionsOf(k) : ItemCallsAt(p) # {}
    /\ \E p \in PositionsOf(LastBatchCall) : ItemCallsAt(p) # {}

\* ------------------------------------------------------------ the writer alone
\* values of translated_text that translate_batch can leave in a cue: none,
\* empty, one line, lines around a blank line, a last line made of digits
WriterTexts ==
    { None, <<>>, <<"a", "\n", "\n", "b">>, <<"a", "\n", "\n", "5">> }

\* the cue lists handed to write_srt: any index line per cue, any of the
\* translations per cue
WriterCuesOf(n) ==
    { [p \in 1..n |-> [index |-> idx[p], start_time |-> CueStart[p], end_time |-> CueEnd[p],
                       text |-> CueText[p], translated_text |-> tts[p]]] :
        idx \in [1..n -> 1..MaxCues], tts \in [1..n -> WriterTexts] }

\* a call of write_srt on a cue list
WriterInit ==
    /\ translator = "groq"
    /\ input_file = "readable"
    /\ batch_size = 1
    /\ pc = "write"
    /\ \E n \in 0..MaxCues : subtitles \in WriterCuesOf(n)
    /\ i = 0
    /\ context = <<>>
    /\ assigned = <<>>
    /\ translations_applied = FALSE
    /\ translated_count = 0
    /\ cur = 0
    /\ attempt = 0
    /\ calls = <<>>
    /\ waits = <<>>
    /\ pauses = <<>>
    /\ progress = <<>>
    /\ output = <<>>
    /\ output_file = "absent"
    /\ returned = ""
    /\ success_count = -1
    /\ exit_status = -1
    /\ document = <<>>
    /\ warned = FALSE

\* ------------------------------------------------------------ the reader
\* a document is a sequence of tokens: "\n", "\r\n", "\r", " ", digit strings,
\* timestamps, "-->" and other text
DigitToken == <<"1", "2", "3", "4", "5">>

\* \d+
IsDigits(t) == t = "01" \/ \E k \in DOMAIN DigitToken : DigitToken[k] = t

\* int(match.group(1))
IntOf(t) == IF t = "01" THEN 1 ELSE CHOOSE k \in DOMAIN DigitToken : DigitToken[k] = t

DottedTime == "00:00:01.000"

\* \d{2}:\d{2}:\d{2}[,\.]\d{3}
IsTime(t) == t = DottedTime \/ \E p \in DOMAIN CueStart : t = CueStart[p] \/ t = CueEnd[p]

\* .replace('.', ',')
CommaTime(t) == IF t = DottedTime THEN "00:00:01,000" ELSE t

\* content.replace('\r\n', '\n').replace('\r', '\n')
NormalizeNewlines(s) == [k \in DOMAIN s |-> IF s[k] \in {"\r\n", "\r"} THEN "\n" ELSE s[k]]

\* first position >= j of s that holds no "\n" (Len(s)+1 if none)
RECURSIVE SkipNewlines(_, _)
SkipNewlines(s, j) == IF j <= Len(s) /\ s[j] = "\n" THEN SkipNewlines(s, j + 1) ELSE j

\* first position >= j of s that holds "\n", 0 if none
RECURSIVE NextNewline(_, _)
NextNewline(s, j) == IF j > Len(s) THEN 0
                     ELSE IF s[j] = "\n" THEN j
                     ELSE NextNewline(s, j + 1)

\* mutant: any blank line ends the text
BlockAhead_AnyBlankLine(s, j) ==
    \/ j = Len(s) + 1
    \/ SkipNewlines(s, j) - j >= 2

\* the lookahead (?=\n{2,}\d+\s*\n|\Z) at position j of s
BlockAhead(s, j) ==
    \/ j = Len(s) + 1
    \/ LET q == SkipNewlines(s, j) IN
          /\ q - j >= 2
          /\ q <= Len(s)
          /\ IsDigits(s[q])
          /\ \E k \in (q + 1)..(SkipSpace(s, q + 1) - 1) : s[k] = "\n"

\* end of the lazy group ([\s\S]*?) that starts at j
RECURSIVE TextEnd(_, _)
TextEnd(s, j) == IF BlockAhead(s, j) THEN j ELSE TextEnd(s, j + 1)

\* the pattern of parse_srt tried at position j of s: index line, timing
\* line, text up to the lookahead
MatchBlock(s, j) ==
    LET d == SkipSpace(s, j)
        t1 == SkipSpace(s, d + 1)
        ar == SkipSpace(s, t1 + 1)
        t2 == SkipSpace(s, ar + 1)
        nl == NextNewline(s, t2 + 1)
        ok == /\ (j = 1 \/ s[j - 1] = "\n")
              /\ d <= Len(s) /\ IsDigits(s[d])
              /\ t1 <= Len(s) /\ t1 > d + 1 /\ s[t1 - 1] = "\n" /\ IsTime(s[t1])
              /\ ar <= Len(s) /\ s[ar] = "-->"
              /\ t2 <= Len(s) /\ IsTime(s[t2])
              /\ nl # 0
    IN  IF ~ok THEN [ok |-> FALSE, next |-> j + 1]
        ELSE LET e == TextEnd(s, nl + 1)
             IN  [ok |-> TRUE, next |-> e, index |-> IntOf(s[d]),
                  start_time |-> CommaTime(s[t1]), end_time |-> CommaTime(s[t2]),
                  text |-> Strip(SubSeq(s, nl + 1, e - 1))]

\* mutant: every matched block is appended
KeepsBlock_Always(tr, text) == TRUE

\* "if text:" of the Groq parse_srt; the Avalai parse_srt appends every block
KeepsBlock(tr, text) == tr = "avalai" \/ text # <<>>

\* re.finditer(pattern, content) from position j, and the loop over the
\* matches: the blocks with a text, as cues
RECURSIVE BlocksFrom(_, _, _)
BlocksFrom(tr, s, j) ==
    IF j > Len(s) THEN <<>>
    ELSE LET m == MatchBlock(s, j)
         IN  (IF m.ok /\ KeepsBlock(tr, m.text)
              THEN <<SubtitleBlock(m.index, m.start_time, m.end_time, m.text)>>
              ELSE <<>>) \o BlocksFrom(tr, s, m.next)

\* parse_srt of the translator tr on the content of a readable file
ParseContentOf(tr, content) == BlocksFrom(tr, NormalizeNewlines(content), 1)

\* parse_srt of translate-srt-v2.py on the content of a readable file
ParseContent(content) == ParseContentOf("groq", content)

\* the text write_srt puts in the file for one record: the index line, the
\* timing line, the body and a blank line
RecordContent(r) ==
    <<DigitToken[r.index], "\n", r.start_time, " ", "-->", " ", r.end_time, "\n">>
        \o r.body \o <<"\n", "\n">>

RECURSIVE WrittenContent(_)
\* the content of the file after write_srt wrote the records recs
WrittenContent(recs) ==
    IF recs = <<>> THEN <<>> ELSE RecordContent(Head(recs)) \o WrittenContent(Tail(recs))

\* parse_srt applied to the file that write_srt completed
ParseWritten ==
    /\ pc = "done"
    /\ output_file = "complete"
    /\ pc' = "reread"
    /\ document' = WrittenContent(output)
    /\ subtitles' = ParseContent(document')
    /\ warned' = LowCount(subtitles')
    /\ UNCHANGED <<run_vars, batch_vars, log_vars, end_vars>>

WriterNext ==
    \/ WriteSrt
    \/ ParseWritten

SpecWriter == WriterInit /\ [][WriterNext]_vars

\* places in output of the records of the cue at position p (the start times
\* tell the cues apart)
RecordPlaces(p) == { k \in DOMAIN output : output[k].start_time = subtitles[p].start_time }

\* C12: a write_srt that meets no I/O error emits one record per cue, in
\* ascending order of index, cues of equal index in their order in the list.
C12_OrderedOutput ==
    (pc = "done" /\ output_file = "complete") =>
        /\ Len(output) = total
        /\ \A p \in DOMAIN subtitles :
              /\ Cardinality(RecordPlaces(p)) = 1
              /\ \A k \in RecordPlaces(p) : output[k].index = subtitles[p].index
        /\ \A k \in 1..(Len(output) - 1) : output[k].index <= output[k + 1].index
        /\ \A p, q \in DOMAIN subtitles :
              (p < q /\ subtitles[p].index = subtitles[q].index) =>
                  \A k \in RecordPlaces(p), m \in RecordPlaces(q) : k < m

C12_Witness ==
    /\ pc = "done"
    /\ output_file = "complete"
    /\ total = 3
    /\ \E p, q \in DOMAIN subtitles : p < q /\ subtitles[p].index = subtitles[q].index
    /\ \E p, q \in DOMAIN subtitles : p < q /\ subtitles[p].index > subtitles[q].index

\* the body written for the cue at position p
BodyOf(p) == output[CHOOSE k \in RecordPlaces(p) : TRUE].body

Written == pc = "done" /\ output_file = "complete"

\* C13 as claimed: the body of a cue is its translated_text whenever that has
\* been set (is not None), and its source text only when it is None.
C13_BodyWhenSet ==
    Written =>
        \A p \in DOMAIN subtitles :
            BodyOf(p) = IF subtitles[p].translated_text # None
                        THEN subtitles[p].translated_text
                        ELSE subtitles[p].text

\* C13 as amended: the body of a cue is its translated_text, trimmed, whenever
\* that is not empty, and its source text, trimmed, when translated_text is
\* None or empty.
C13_BodyWhenNotEmpty ==
    Written =>
        \A p \in DOMAIN subtitles :
            BodyOf(p) = IF subtitles[p].translated_text \notin {None, <<>>}
                        THEN Strip(subtitles[p].translated_text)
                        ELSE Strip(subtitles[p].text)

C13_Witness ==
    /\ Written
    /\ \E p, q, r \in DOMAIN subtitles :
          /\ subtitles[p].translated_text = <<>> /\ BodyOf(p) = subtitles[p].text
          /\ subtitles[q].translated_text = None /\ BodyOf(q) = subtitles[q].text
          /\ subtitles[r].translated_text = <<"a", "\n", "\n", "b">>
          /\ BodyOf(r) = subtitles[r].translated_text


\* C14: parsing the document written by write_srt yields the cues that were
\* written: as many cues as records, each with the index, the start and end
\* times of its record, and with the record's body as text.
C14_RoundTrip ==
    pc = "reread" =>
        /\ Len(subtitles) = Len(output)
        /\ \A k \in DOMAIN subtitles \cap DOMAIN output :
              /\ subtitles[k].index = output[k].index
              /\ subtitles[k].start_time = output[k].start_time
              /\ subtitles[k].end_time = output[k].end_time
              /\ subtitles[k].text = output[k].body


\* C15: a parse_srt that cannot read its file gives its caller an explicit
\* error (the exception leaves translate_file, "raised"), never the empty list
\* that makes translate_file return None as for a file without a valid block.
ExplicitReadError == (pc = "parse" /\ input_file # "readable") => returned' = "raised"

C15_UnreadableIsError == [][ExplicitReadError]_vars


\* the run wrote its output and left a cue untranslated: without
\* translated_text, or with every attempt of translate_text failed
PartialTranslation ==
    /\ output_file = "complete"
    /\ \E p \in DOMAIN subtitles : ~Truthy(subtitles[p].translated_text) \/ Exhausted(p)

\* C16: a run on a missing input file and a run whose input parses to no cue
\* end with a status other than 0 and without output file; a run that wrote
\* its output with some cue left untranslated ends with status 0 and returns
\* the output path.
C16_ExitBehaviour ==
    pc = "done" =>
        /\ (input_file = "missing" => exit_status # 0 /\ output_file = "absent")
        /\ ((input_file = "readable" /\ subtitles = <<>>) =>
               exit_status # 0 /\ output_file = "absent")
        /\ (PartialTranslation => exit_status = 0 /\ returned = "output_path")


\* C17: when write_srt fails, at open or partway through the records, the run
\* ends with a status other than 0 and translate_file does not return the
\* output path.
WriteFailureSignalled ==
    (pc = "write" /\ output_file' # "complete") =>
        (exit_status' # 0 /\ returned' # "output_path")

C17_WriteFailure == [][WriteFailureSignalled]_vars


\* cues that hold a translation taken from a response of the backend
GenuinelyTranslated ==
    { p \in DOMAIN subtitles : Truthy(subtitles[p].translated_text) /\ ~Exhausted(p) }

\* C18: the count of the final summary is the number of cues that received a
\* translation from the backend; a cue whose batch request and whose attempts
\* of translate_text all failed is not counted.
C18_SummaryCount ==
    (pc = "done" /\ success_count # -1) => success_count = Cardinality(GenuinelyTranslated)


\* the batches the for loop has left
ResolvedBatches == { k \in BatchCalls : Resolved(k) }

\* C19: every batch the loop has left, however it was resolved, has emitted
\* one progress signal: there are as many signals as resolved batches, and at
\* the return of translate_batch as many as batches.
C19_ProgressPerBatch == Len(progress) = Cardinality(ResolvedBatches)


\* the batch request that opened the n-th iteration of the for loop
NthBatchCall(n) == CHOOSE k \in BatchCalls : Cardinality({ m \in BatchCalls : m <= k }) = n

\* C20 as claimed: every resolved batch is followed by a pause, and all the
\* pauses of a run have the same duration.
C20_UniformPause ==
    /\ Len(pauses) = Cardinality(ResolvedBatches)
    /\ \A a, b \in DOMAIN pauses : pauses[a] = pauses[b]

\* C20 as amended: every resolved batch is followed by one pause, of 1 s when
\* its batch request failed and of 0.5 s (Groq) or 0.8 s (Avalai) otherwise.
C20_PausePerPath ==
    /\ Len(pauses) = Cardinality(ResolvedBatches)
    /\ \A n \in DOMAIN pauses :
          pauses[n] = IF ~calls[NthBatchCall(n)].usable THEN 1000
                      ELSE IF translator = "groq" THEN 500 ELSE 800

C20_Witness ==
    /\ TranslateBatchReturned
    /\ Len(pauses) = 2
    /\ pauses[1] = 1000
    /\ pauses[2] \in {500, 800}
    /\ ItemCallsAt(2) # {}

\* ------------------------------------------------------- the context alone
\* a translation longer than the cap of 50 of a context part, and long
\* enough for three of them to pass the 300 of the Avalai batch prompt
LongText == [k \in 1..101 |-> "a"]

\* values of translated_text of the cues before a batch
ContextTexts == { None, <<>>, <<"b">>, LongText }

\* cue lists at the start of an iteration of the for loop
ContextCuesOf(n) ==
    { [p \in 1..n |-> [index |-> p, start_time |-> "00:00:01,000", end_time |-> "00:00:02,500",
                       text |-> <<"s">>, translated_text |-> tts[p]]] :
        tts \in [1..n -> ContextTexts] }

\* the for loop of translate_batch at the offset i of some batch
ContextInit ==
    /\ translator \in Translators
    /\ input_file = "readable"
    /\ batch_size \in 1..MaxBatchSize
    /\ pc = "context"
    /\ \E n \in 1..MaxContextCues : subtitles \in ContextCuesOf(n)
    /\ i \in { k \in 0..(Len(subtitles) - 1) : k % batch_size = 0 }
    /\ context = <<>>
    /\ assigned = <<>>
    /\ translations_applied = FALSE
    /\ translated_count = 0
    /\ cur = 0
    /\ attempt = 0
    /\ calls = <<>>
    /\ waits = <<>>
    /\ pauses = <<>>
    /\ progress = <<>>
    /\ output = <<>>
    /\ output_file = "absent"
    /\ returned = ""
    /\ success_count = -1
    /\ exit_status = -1
    /\ document = <<>>
    /\ warned = FALSE

\* the statements of the loop body that build context
BuildBatchContext ==
    /\ pc = "context"
    /\ context' = BuildContext(translator, subtitles, i)
    /\ pc' = "request"
    /\ UNCHANGED <<run_vars, file_vars, subtitles, i, assigned, translations_applied, translated_count,
                   cur, attempt, log_vars, end_vars>>

\* create_batch_prompt(batch_texts, context) and the batch request
BatchPromptSent ==
    /\ pc = "request"
    /\ calls' = Append(calls, [kind |-> "batch", at |-> i, texts |-> BatchTexts(i),
                               context |-> BatchPromptContext(translator, context),
                               usable |-> FALSE, marked |-> {}])
    /\ pc' = "fallback_failed"
    /\ cur' = BatchFirst(i)
    /\ UNCHANGED <<run_vars, file_vars, subtitles, i, context, assigned, translations_applied,
                   translated_count, attempt, waits, pauses, progress, end_vars>>

\* translate_text(sub.text, context) for the first cue of the batch:
\* create_translation_prompt(text, context) and the request
ItemPromptSent ==
    /\ pc = "fallback_failed"
    /\ calls' = Append(calls, [kind |-> "item", at |-> cur,
                               texts |-> <<subtitles[cur].text>>,
                               context |-> context, usable |-> FALSE, marked |-> {}])
    /\ pc' = "sent"
    /\ UNCHANGED <<run_vars, file_vars, subtitles, batch_vars, waits, pauses, progress,
                   end_vars>>

ContextNext ==
    \/ BuildBatchContext
    \/ BatchPromptSent
    \/ ItemPromptSent

SpecContext == ContextInit /\ [][ContextNext]_vars

\* the translated cues among the positions ps
TranslatedIn(ps) == { p \in ps : Truthy(subtitles[p].translated_text) }

\* the part of the context made from each translated cue, by position
PartOf ==
    [p \in TranslatedIn(DOMAIN subtitles) |->
    IF translator = "groq" THEN SubSeq(subtitles[p].translated_text, 1,
                                       Min(50, Len(subtitles[p].translated_text)))
    ELSE <<"[">> \o subtitles[p].translated_text \o <<"]">>]

\* the truncated parts, as the claim has them for both tools
CappedPartOf ==
    [p \in TranslatedIn(DOMAIN subtitles) |->
        SubSeq(subtitles[p].translated_text, 1, Min(50, Len(subtitles[p].translated_text)))]

RECURSIVE Joined(_, _)
\* the parts of the positions ps, oldest first, joined by the separator
Joined(ps, part) ==
    IF ps = {} THEN <<>>
    ELSE LET last == CHOOSE p \in ps : \A q \in ps : q <= p
             rest == ps \ {last}
         IN  IF rest = {} THEN part[last]
             ELSE Joined(rest, part) \o <<" <- ">> \o part[last]

\* the last (at most) 3 of the positions ps
LastThree(ps) == { p \in ps : Cardinality({ q \in ps : q > p }) < 3 }

\* positions of the batch before the one at offset i
PriorBatch == (Max(0, i - batch_size) + 1)..i

\* C21 as claimed: the context of a batch after the first is made from the
\* last 3 of the translated cues of the prior batch, oldest first, each
\* truncated to 50 and joined by the separator; the first batch has none.
C21_PriorBatchContext ==
    pc = "request" =>
        context = IF i = 0 THEN <<>>
                  ELSE Joined(LastThree(TranslatedIn(PriorBatch)), CappedPartOf)

\* C21 as amended: the context of a batch after the first is made from the
\* 3 cues (fewer at the start) that precede the batch in the list, whatever
\* batch they belong to, keeping those with a translation, oldest first and
\* joined by the separator; a part is the translation truncated to 50 in the
\* Groq tool and the whole translation in brackets in the Avalai tool.
C21_PrecedingWindow ==
    pc = "request" =>
        context = IF i = 0 THEN <<>>
                  ELSE Joined(TranslatedIn((Max(0, i - 3) + 1)..i), PartOf)

C21_Witness ==
    /\ pc = "request"
    /\ translator = "groq"
    /\ i = 4
    /\ Truthy(subtitles[1].translated_text)
    /\ subtitles[2].translated_text = LongText
    /\ subtitles[3].translated_text = <<>>
    /\ subtitles[4].translated_text = <<"b">>
    /\ Len(context) = 50 + 1 + 1

\* ------------------------------------------------------- interruption
\* KeyboardInterrupt raised while translate_file runs: it is not an Exception,
\* so no handler of _call_api, parse_srt or write_srt catches it and it leaves
\* translate_file at once; the Groq main prints a message and returns 1, the
\* Avalai main does not catch it and the interpreter ends on SIGINT (130).
\* During write_srt the records written so far stay in the file.
Interrupt ==
    /\ pc \in {"parse", "loop", "fallback_failed", "fallback_unparsed", "write"}
    /\ IF pc = "write"
       THEN \E written \in {0, total - 1} :
                /\ output' = SubSeq(SrtRecords(subtitles), 1, written)
                /\ output_file' = IF written = 0 THEN "absent" ELSE "partial"
       ELSE UNCHANGED <<output, output_file>>
    /\ Exit(IF translator = "groq" THEN 1 ELSE 130, "interrupted")
    /\ UNCHANGED <<run_vars, file_vars, subtitles, batch_vars, log_vars, success_count>>

NextInterruptible ==
    \/ Next
    \/ Interrupt

SpecInterrupt == Init /\ [][NextInterruptible]_vars

\* C22: an interruption never takes effect while a batch is being resolved
\* (between the batch request and the end of its per-item fallback), and it
\* leaves the translations made so far in the cues.
CooperativeInterrupt ==
    (returned # "interrupted" /\ returned' = "interrupted") =>
        (pc \notin {"fallback_failed", "fallback_unparsed"} /\ subtitles' = subtitles)

C22_CooperativeCancel == [][CooperativeInterrupt]_vars

\* ------------------------------------------------------- the reader alone
\* the index line of the block at place p of a document
IndexLine(p) == DigitToken[((p - 1) % Len(DigitToken)) + 1]

\* the text lines of a block: none; one line; only whitespace; two lines
\* around a blank line; a line, a blank line and a line made only of digits
BlockTexts ==
    { <<>>, <<"a">>, <<" ">>, <<"a", "\n", "\n", "b">>, <<"a", "\n", "\n", "5">> }

\* a block of a document: index line, timing line, text lines (each ended
\* by a newline), blank line
BlockContent(p, text) ==
    <<IndexLine(p), "\n", CueStart[1], " ", "-->", " ", CueEnd[1], "\n">>
        \o (IF text = <<>> THEN <<>> ELSE text \o <<"\n">>) \o <<"\n">>

RECURSIVE DocumentOf(_, _)
\* the document made of the blocks with the texts ts[p..]
DocumentOf(ts, p) ==
    IF p > Len(ts) THEN <<>> ELSE BlockContent(p, ts[p]) \o DocumentOf(ts, p + 1)

\* the documents of n blocks
DocumentsOf(n) == { DocumentOf(ts, 1) : ts \in [1..n -> BlockTexts] }

\* a call of parse_srt on a readable file
ReaderInit ==
    /\ translator \in Translators
    /\ input_file = "readable"
    /\ batch_size = 1
    /\ pc = "read"
    /\ subtitles = <<>>
    /\ i = 0
    /\ context = <<>>
    /\ assigned = <<>>
    /\ translations_applied = FALSE
    /\ translated_count = 0
    /\ cur = 0
    /\ attempt = 0
    /\ calls = <<>>
    /\ waits = <<>>
    /\ pauses = <<>>
    /\ progress = <<>>
    /\ output = <<>>
    /\ output_file = "absent"
    /\ returned = ""
    /\ success_count = -1
    /\ exit_status = -1
    /\ \E n \in 0..MaxBlocks : document \in DocumentsOf(n)
    /\ warned = FALSE

\* parse_srt from the read of the file to its return
ParseDocument ==
    /\ pc = "read"
    /\ LET cues == ParseContentOf(translator, document)
       IN  /\ subtitles' = cues
           /\ warned' = LowCount(cues)
    /\ pc' = "parsed"
    /\ UNCHANGED <<run_vars, document, batch_vars, log_vars, end_vars>>

SpecReader == ReaderInit /\ [][ParseDocument]_vars

\* places of the timing lines of the document
TimingLines == { k \in DOMAIN document : document[k] = "-->" }

\* the document has, at place e, a blank line followed by a line made only
\* of digits
IndexLineAhead(e) ==
    /\ e + 3 <= Len(document)
    /\ document[e] = "\n"
    /\ document[e + 1] = "\n"
    /\ IsDigits(document[e + 2])
    /\ document[e + 3] = "\n"

\* the end of the text that starts on the line after the timing line k: the
\* first blank line followed by a digits line, or the end of the document
TextStop(k) ==
    CHOOSE e \in (k + 4)..(Len(document) + 1) :
        /\ e = Len(document) + 1 \/ IndexLineAhead(e)
        /\ \A f \in (k + 4)..(e - 1) : ~IndexLineAhead(f)

RECURSIVE TextsFrom(_)
\* the texts of the cues of the document from place j on: a text runs from
\* its timing line to its stop, the next cue is looked for after the stop;
\* the Groq reader leaves out the empty texts
TextsFrom(j) ==
    LET ks == { k \in TimingLines : k >= j } IN
    IF ks = {} THEN <<>>
    ELSE LET k == CHOOSE k \in ks : \A m \in ks : k <= m
             e == TextStop(k)
             text == Strip(SubSeq(document, k + 4, e - 1))
         IN  (IF translator = "avalai" \/ text # <<>> THEN <<text>> ELSE <<>>)
                 \o TextsFrom(e)

\* C23: on the return of parse_srt the low-count warning has been logged
\* exactly when fewer than 5 cues are returned, and with or without warning
\* the cues of the document are returned.
C23_LowCountWarning ==
    pc = "parsed" =>
        /\ warned <=> Len(subtitles) < 5
        /\ Len(subtitles) = Len(TextsFrom(1))

C23_Witness ==
    /\ pc = "parsed"
    /\ Len(subtitles) = 5
    /\ ~warned
    /\ translator = "groq"

\* number of batch requests issued before the request k
BatchOrdinal(k) == Cardinality({ j \in BatchCalls : j < k })

\* C24: with batch_size >= 1, translate_batch issues ceil(total / batch_size)
\* batch requests; the k-th (from 0) carries the source texts of the cues at
\* list positions k * batch_size .. min((k + 1) * batch_size, total) - 1, in
\* list order, so that every cue is in exactly one batch.
C24_BatchPartition ==
    (TranslateBatchReturned /\ batch_size >= 1) =>
        /\ Cardinality(BatchCalls) * batch_size >= total
        /\ (Cardinality(BatchCalls) - 1) * batch_size < total
        /\ \A k \in BatchCalls :
              LET lo == BatchOrdinal(k) * batch_size
                  hi == IF lo + batch_size < total THEN lo + batch_size ELSE total
              IN  calls[k].texts = [j \in 1..(hi - lo) |-> subtitles[lo + j].text]
        /\ \A p \in DOMAIN subtitles :
              Cardinality({ k \in BatchCalls : p \in PositionsOf(k) }) = 1

C24_Witness ==
    /\ TranslateBatchReturned
    /\ total = 3
    /\ batch_size = 2
    /\ Cardinality(BatchCalls) = 2
    /\ Len(calls[LastBatchCall].texts) = 1
    /\ subtitles[1].index > subtitles[3].index

\* two consecutive newlines
HasBlankLine(text) == \E j \in 1..(Len(text) - 1) : text[j] = "\n" /\ text[j + 1] = "\n"

TextBlocks == { k \in TimingLines : document[k + 4] \notin {" ", "\n"} }

\* the index line of the n-th block with text
NthTextIndex(n) ==
    LET k == CHOOSE k \in TextBlocks : Cardinality({ j \in TextBlocks : j < k }) = n - 1
    IN  IntOf(document[k - 4])

\* C26: parse_srt returns no cue with an empty text; the blocks that have
\* only blank text are dropped and the other blocks are returned as cues, in
\* their order in the document.
C26_BlankBlocksDropped ==
    pc = "parsed" =>
        /\ \A p \in DOMAIN subtitles : subtitles[p].text # <<>>
        /\ Len(subtitles) = Cardinality(TextBlocks)
        /\ \A p \in DOMAIN subtitles :
              p <= Cardinality(TextBlocks) => subtitles[p].index = NthTextIndex(p)

\* C27: every per-item request of a batch carries the context string that
\* the batch's combined request carried.
C27_SameContext ==
    \A m \in DOMAIN calls :
        calls[m].kind = "item" =>
            calls[m].context = calls[BatchCallBefore(m)].context

\* C28: while a batch is reconciled and resolved, no cue outside the batch
\* has its translated_text (or anything else) changed, whatever markers the
\* response holds.
OnlyBatchCues ==
    pc \in {"loop", "fallback_failed", "fallback_unparsed"} =>
        \A p \in DOMAIN subtitles :
            p \notin (i + 1)..Min(i + batch_size, total) => subtitles'[p] = subtitles[p]

C28_OnlyOwnBatch == [][OnlyBatchCues]_vars

C28_Witness ==
    /\ pc = "loop"
    /\ total = 3
    /\ batch_size = 2
    /\ i = 4
    /\ Len(assigned) = 2
    /\ \A j \in DOMAIN assigned : assigned[j].pos = 3
    /\ Truthy(subtitles[1].translated_text)
    /\ Truthy(subtitles[2].translated_text)

\* C29: after translate_batch returns from a run with batch_size >= 1, a cue
\* without translated_text has had translate_text attempted for it.
C29_EveryCueAttempted ==
    (TranslateBatchReturned /\ batch_size >= 1) =>
        \A p \in DOMAIN subtitles :
            subtitles[p].translated_text = None => ItemCallsAt(p) # {}

\* the cues that have been assigned a translation
AssignedCues(subs) == { p \in DOMAIN subs : subs[p].translated_text # None }

CountWithinTotal == \A j \in DOMAIN progress : progress[j] <= total

\* a step that emits a progress signal reports the number of cues assigned
\* so far
SignalCountsCues ==
    Len(progress') > Len(progress) =>
        progress'[Len(progress')] = Cardinality(AssignedCues(subtitles'))

\* C30: the count of a progress signal never exceeds the number of cues, and
\* it is the number of distinct cues that have been assigned a translation
\* when the signal is emitted.
C30_ProgressCount == []CountWithinTotal /\ [][SignalCountsCues]_vars

\* translate_text of the Groq translator returns in this step, for the cue at
\* cur: a request was issued and it was usable or the last of the attempts
TranslateTextReturns ==
    /\ translator = "groq"
    /\ pc \in {"fallback_failed", "fallback_unparsed"}
    /\ Len(calls') = Len(calls) + 1
    /\ calls'[Len(calls')].usable \/ ~MoreAttempts(attempt)

ReturnsNonEmpty ==
    (TranslateTextReturns /\ subtitles[cur].text # <<>>) =>
        subtitles'[cur].translated_text # <<>>

\* C31: GroqTranslator.translate_text never returns an empty string for a
\* non-empty source text: a response that is empty after the label is
\* stripped is not accepted as a translation.
C31_NeverEmptyTranslation == [][ReturnsNonEmpty]_vars

\* the cue at position p was part of a batch request or of a per-cue request
Requested(p) ==
    \/ \E k \in BatchCalls : p \in PositionsOf(k)
    \/ ItemCallsAt(p) # {}

\* C32: for every integer batch size of the command line, 0 and negative
\* values included, when translate_file of the Groq tool returns the output
\* path, every parsed cue was part of at least one backend request of the run.
C32_SuccessCoversEveryCue ==
    (translator = "groq" /\ returned = "output_path") =>
        \A p \in DOMAIN subtitles : Requested(p)

====
